---- MODULE Spec2Model ----
(***************************************************************************)
(* Calibration of the quantization range (range_max) as described in       *)
(* plot_0_advanced_quantizeml.py, section 2 "Calibration":                  *)
(*   - the number of calibration steps (lines 285-290),                     *)
(*   - range_max initialised from the first batch of samples and updated    *)
(*     by the following batches (lines 238-250),                            *)
(*   - epochs: iterations over the calibration samples (lines 302-306).     *)
(* Values are exact rationals <<numerator, denominator>>, so the pseudo     *)
(* code's arithmetic is modelled without rounding.                          *)
(***************************************************************************)
EXTENDS Integers, Sequences, FiniteSets, TLC

VARIABLES
    num_samples,          \* calibration parameter (line 268, 282)
    batch_size,           \* calibration parameter, None when not set (line 287)
    epochs,               \* calibration parameter (line 302)
    momentum,             \* rational in [0,1) (line 243: set to 0.9)
    axis,                 \* "per-axis" or "per-tensor" (lines 241-242)
    samples,              \* the calibration samples, each a vector of channel values
    pc,                   \* "start", "calibrating", "done"
    steps,                \* number of steps per epoch (lines 287-290)
    epoch,                \* current epoch, 1..epochs
    step,                 \* current step of the epoch, 1..steps
    cursor,               \* 0-based position of the next sample in samples
    batch,                \* the batch drawn last: a sequence of rows
    samples_max,          \* line 248
    previous_range_max,   \* lines 249-250
    delta,                \* line 249
    range_max,            \* the stored quantization range (line 240)
    calls,                \* history: the operations applied to range_max, in order
    qparams,              \* the QuantizationParams (lines 44-45, 158-159)
    quantized_model,      \* per layer, the configuration it was quantized with (line 162)
    config,               \* the dumped configuration being edited (lines 168-202)
    new_quantized_model,  \* line 212
    new_config,           \* line 215
    qpc                   \* the next statement of section 1.2, by its line

cvars == <<num_samples, batch_size, epochs, momentum, axis, samples, pc, steps,
           epoch, step, cursor, batch, samples_max, previous_range_max, delta,
           range_max, calls>>

qvars == <<qparams, quantized_model, config, new_quantized_model, new_config, qpc>>

vars == <<cvars, qvars>>

(***************************** bounds ***************************************)
MaxSamples == 3
MaxBatch == 2
MaxEpochs == 2
MaxSrc == 2

(***************************** rationals ************************************)
Abs(x) == IF x < 0 THEN -x ELSE x

RECURSIVE GCD(_, _)
GCD(a, b) == IF b = 0 THEN a ELSE GCD(b, a % b)

\* The rational n/d (d > 0) in lowest terms.
Rat(n, d) ==
    LET g == GCD(Abs(n), d)
    IN  <<n \div g, d \div g>>

RInt(i) == <<i, 1>>
RSub(x, y) == Rat(x[1] * y[2] - y[1] * x[2], x[2] * y[2])
RAdd(x, y) == Rat(x[1] * y[2] + y[1] * x[2], x[2] * y[2])
RMul(x, y) == Rat(x[1] * y[1], x[2] * y[2])
ROne == RInt(1)

(***************************** tensors **************************************)
\* A tensor of rationals: a scalar has shape <<>> and one datum, a vector of
\* n entries has shape <<n>>.
Scalar(x) == [shape |-> <<>>, data |-> <<x>>]
Vector(xs) == [shape |-> <<Len(xs)>>, data |-> xs]
\* range_max before the first batch has been seen.
Unset == [shape |-> <<>>, data |-> <<>>]

\* Elementwise arithmetic, as the pseudo code's operators on arrays.
TSub(s, t) == [shape |-> s.shape, data |-> [i \in DOMAIN s.data |-> RSub(s.data[i], t.data[i])]]
TScale(t, x) == [shape |-> t.shape, data |-> [i \in DOMAIN t.data |-> RMul(t.data[i], x)]]

\* The largest of s[lo..hi], reducing the two halves of the range.
RECURSIVE MaxRange(_, _, _)
MaxRange(s, lo, hi) ==
    IF lo = hi THEN s[lo]
    ELSE LET mid == (lo + hi) \div 2
             l == MaxRange(s, lo, mid)
             r == MaxRange(s, mid + 1, hi)
         IN  IF l >= r THEN l ELSE r

MaxOfSeq(s) == MaxRange(s, 1, Len(s))

Column(b, c) == [r \in DOMAIN b |-> b[r][c]]

\* All the entries of batch b in row-major order.
Flatten(b) ==
    LET n == Len(b[1])
    IN  [k \in 1..(Len(b) * n) |-> b[((k - 1) \div n) + 1][((k - 1) % n) + 1]]

\* Mutant: the reduction ignores the quantization scheme and always reduces
\* over every dimension.
reduce_max_all(b, ax) == Scalar(RInt(MaxOfSeq(Flatten(b))))

\* samples_max = reduce_max(samples), per-axis or per-tensor depending on
\* the quantization scheme.
reduce_max(b, ax) ==
    IF ax = "per-axis"
    THEN Vector([c \in DOMAIN b[1] |-> RInt(MaxOfSeq(Column(b, c)))])
    ELSE Scalar(RInt(MaxOfSeq(Flatten(b))))

(***************************** the driver ***********************************)
None == 0

\* Mutant: the division truncates instead of rounding up.
StepsFloor(n, b) == IF b = None THEN n ELSE n \div b

\* np.ceil(x) for the quotient n / b of two positive integers.
Ceil(n, b) == IF n % b = 0 THEN n \div b ELSE (n \div b) + 1

Steps(n, b) == IF b = None THEN n ELSE Ceil(n, b)

\* The number of samples a step draws.
BatchLen == IF batch_size = None THEN 1 ELSE batch_size

\* The next batch: BatchLen samples from the cursor on, starting over at the
\* beginning of the samples when their end is reached (the source only says
\* that the epochs iterate over the calibration samples).
NextBatch == [i \in 1..BatchLen |-> samples[((cursor + i - 1) % Len(samples)) + 1]]

\* Mutant: the first batch of every epoch initialises range_max.
IsFirstBatchOfEpoch == step = 1

\* "range_max is initialized with the maximum value of the first batch of
\* samples ... and the following batches will update range_max".
IsFirstBatch == epoch = 1 /\ step = 1

\* Mutant: the run ends with the first epoch.
IsLastStepOfEpoch == step = steps

IsLastBatch == epoch = epochs /\ step = steps

\* The loop counters after a batch has been processed.
Advance ==
    /\ cursor' = (cursor + BatchLen) % Len(samples)
    /\ IF IsLastBatch
       THEN pc' = "done" /\ UNCHANGED <<epoch, step>>
       ELSE /\ pc' = pc
            /\ IF step < steps
               THEN step' = step + 1 /\ epoch' = epoch
               ELSE step' = 1 /\ epoch' = epoch + 1

(***************************** the quantization scheme **********************)
\* The layers of the example model (lines 148-152).
Layers == {"dw_conv", "pw_conv", "relu", "dense"}

\* QuantizationParams(...), as a record of its arguments.
QuantizationParams(iw, w, a, o, pt, b) ==
    [input_weight_bits |-> iw, weight_bits |-> w, activation_bits |-> a,
     output_bits |-> o, per_tensor_activations |-> pt, buffer_bits |-> b]

\* The configuration of layer l that the parameters qp define, as the dumped
\* configuration is explained in lines 174-189.
LayerConfig(l, qp) ==
    CASE l = "dw_conv" ->
            [output_quantizer |-> [bitwidth |-> qp.output_bits],
             weight_quantizer |-> [bitwidth |-> qp.input_weight_bits, axis |-> -2],
             buffer_bitwidth |-> qp.buffer_bits]
      [] l = "relu" ->
            [output_quantizer |->
                [bitwidth |-> qp.activation_bits,
                 axis |-> IF qp.per_tensor_activations THEN "per-tensor" ELSE "per-axis"],
             buffer_bitwidth |-> qp.buffer_bits]
      [] OTHER ->
            [weight_quantizer |-> [bitwidth |-> qp.weight_bits],
             buffer_bitwidth |-> qp.buffer_bits]

\* q_config = None: no layer is configured.
NoConfig == [l \in {} |-> {}]

\* Mutant: the parameters have priority over the configuration.
quantize_params_first(q_config, qp) == [l \in Layers |-> LayerConfig(l, qp)]

\* quantize(model, q_config=..., qparams=...): a layer the configuration names
\* is quantized as configured there, the other layers use qparams (lines
\* 134-136 and 208-210). The result is the model, as the configuration each
\* of its layers was quantized with.
quantize(q_config, qp) ==
    [l \in Layers |-> IF l \in DOMAIN q_config THEN q_config[l] ELSE LayerConfig(l, qp)]

\* dump_config(model): the configuration, indexed by the layer names.
dump_config(m) == [l \in DOMAIN m |-> m[l]]

\* del config[l]
Del(cfg, l) == [k \in (DOMAIN cfg) \ {l} |-> cfg[k]]

(***************************** inputs ***************************************)
Momenta == {<<0, 1>>, <<1, 2>>, <<9, 10>>}

SamplePool ==
    {<<-2>>, <<1>>, <<3>>, <<1, 2, 3>>, <<4, 0, 0>>, <<-5, 1, -3>>}

\* Samples of one run all have the shape of the model's input.
Sources ==
    {s \in UNION {[1..n -> SamplePool] : n \in 1..MaxSrc} :
        \A i \in DOMAIN s : Len(s[i]) = Len(s[1])}

Configs ==
    ((1..MaxSamples) \X (0..MaxBatch)) \cup {<<1024, 100>>}

Init ==
    /\ \E c \in Configs : num_samples = c[1] /\ batch_size = c[2]
    /\ epochs \in 1..MaxEpochs
    /\ momentum \in Momenta
    /\ axis \in {"per-axis", "per-tensor"}
    /\ samples \in Sources
    /\ pc = "start"
    /\ steps = 0
    /\ epoch = 0
    /\ step = 0
    /\ cursor = 0
    /\ batch = <<>>
    /\ samples_max = Unset
    /\ previous_range_max = Unset
    /\ delta = Unset
    /\ range_max = Unset
    /\ calls = <<>>
    /\ qparams = QuantizationParams(16, 4, 6, 12, TRUE, 24)
    /\ quantized_model = NoConfig
    /\ config = NoConfig
    /\ new_quantized_model = NoConfig
    /\ new_config = NoConfig
    /\ qpc = "quantize"

(***************************** actions **************************************)
\* The guards of the three steps of a run.
CanComputeSteps == pc = "start"
CanInitialize == pc = "calibrating" /\ IsFirstBatch
CanUpdate == pc = "calibrating" /\ ~IsFirstBatch

ComputeSteps ==
    /\ CanComputeSteps
    /\ steps' = Steps(num_samples, batch_size)
    /\ epoch' = 1
    /\ step' = 1
    /\ pc' = "calibrating"
    /\ UNCHANGED <<num_samples, batch_size, epochs, momentum, axis, samples, cursor,
                   batch, samples_max, previous_range_max, delta, range_max, calls>>
    /\ UNCHANGED qvars

\* The first batch: range_max is initialised with its maximum.
Initialize ==
    /\ CanInitialize
    /\ batch' = NextBatch
    /\ samples_max' = reduce_max(NextBatch, axis)
    /\ range_max' = samples_max'
    /\ calls' = Append(calls, "initialize")
    /\ Advance
    /\ UNCHANGED <<num_samples, batch_size, epochs, momentum, axis, samples, steps,
                   previous_range_max, delta>>
    /\ UNCHANGED qvars

\* A following batch:
\*   samples_max = reduce_max(samples)
\*   delta = previous_range_max - new_range_max * (1 - momentum)
\*   new_range_max = previous_range_max - delta
\* where new_range_max on the right-hand side of the second line is the new
\* observation, samples_max.
Update ==
    /\ CanUpdate
    /\ batch' = NextBatch
    /\ samples_max' = reduce_max(NextBatch, axis)
    /\ previous_range_max' = range_max
    /\ delta' = TSub(range_max, TScale(samples_max', RSub(ROne, momentum)))
    /\ range_max' = TSub(range_max, delta')
    /\ calls' = Append(calls, "update")
    /\ Advance
    /\ UNCHANGED <<num_samples, batch_size, epochs, momentum, axis, samples, steps>>
    /\ UNCHANGED qvars

Next == ComputeSteps \/ Initialize \/ Update

Spec == Init /\ [][Next]_vars

(***************************** section 1.2: the configuration ***************)
\* The values the two QuantizationParams of the source give each argument
\* (lines 44-45 and 158-159).
QParamsSet ==
    {QuantizationParams(iw, w, a, o, pt, b) :
        iw \in {8, 16}, w \in {8, 4}, a \in {8, 6}, o \in {8, 12},
        pt \in BOOLEAN, b \in {32, 24}}

\* The statements of lines 162-215, in order.
Script ==
    <<"quantize", "dump", "edit_bitwidth", "edit_axis", "edit_buffer",
      "del_dw_conv", "del_pw_conv", "del_dense", "quantize_config", "dump_new", "done">>

After(label) == Script[(CHOOSE i \in DOMAIN Script : Script[i] = label) + 1]

InitQ ==
    /\ num_samples = 1024
    /\ batch_size = None
    /\ epochs = 1
    /\ momentum = <<9, 10>>
    /\ axis = "per-tensor"
    /\ samples = << <<1>> >>
    /\ pc = "start"
    /\ steps = 0
    /\ epoch = 0
    /\ step = 0
    /\ cursor = 0
    /\ batch = <<>>
    /\ samples_max = Unset
    /\ previous_range_max = Unset
    /\ delta = Unset
    /\ range_max = Unset
    /\ calls = <<>>
    /\ qparams \in QParamsSet
    /\ quantized_model = NoConfig
    /\ config = NoConfig
    /\ new_quantized_model = NoConfig
    /\ new_config = NoConfig
    /\ qpc = "quantize"

\* quantized_model = quantize(model, qparams=qparams)
QuantizeWithParams ==
    /\ qpc = "quantize"
    /\ quantized_model' = quantize(NoConfig, qparams)
    /\ qpc' = After(qpc)
    /\ UNCHANGED <<qparams, config, new_quantized_model, new_config>>
    /\ UNCHANGED cvars

\* config = dump_config(quantized_model)
DumpConfig ==
    /\ qpc = "dump"
    /\ config' = dump_config(quantized_model)
    /\ qpc' = After(qpc)
    /\ UNCHANGED <<qparams, quantized_model, new_quantized_model, new_config>>
    /\ UNCHANGED cvars

\* config["relu"]["output_quantizer"]['bitwidth'] = 1
EditBitwidth ==
    /\ qpc = "edit_bitwidth"
    /\ config' = [config EXCEPT !["relu"].output_quantizer.bitwidth = 1]
    /\ qpc' = After(qpc)
    /\ UNCHANGED <<qparams, quantized_model, new_quantized_model, new_config>>
    /\ UNCHANGED cvars

\* config["relu"]["output_quantizer"]['axis'] = 'per-axis'
EditAxis ==
    /\ qpc = "edit_axis"
    /\ config' = [config EXCEPT !["relu"].output_quantizer.axis = "per-axis"]
    /\ qpc' = After(qpc)
    /\ UNCHANGED <<qparams, quantized_model, new_quantized_model, new_config>>
    /\ UNCHANGED cvars

\* config["relu"]['buffer_bitwidth'] = 32
EditBuffer ==
    /\ qpc = "edit_buffer"
    /\ config' = [config EXCEPT !["relu"].buffer_bitwidth = 32]
    /\ qpc' = After(qpc)
    /\ UNCHANGED <<qparams, quantized_model, new_quantized_model, new_config>>
    /\ UNCHANGED cvars

\* del config['dw_conv']; del config['pw_conv']; del config['dense']
DropLayer ==
    /\ \E l \in {"dw_conv", "pw_conv", "dense"} :
          /\ qpc = IF l = "dw_conv" THEN "del_dw_conv"
                   ELSE IF l = "pw_conv" THEN "del_pw_conv" ELSE "del_dense"
          /\ config' = Del(config, l)
    /\ qpc' = After(qpc)
    /\ UNCHANGED <<qparams, quantized_model, new_quantized_model, new_config>>
    /\ UNCHANGED cvars

\* new_quantized_model = quantize(model, q_config=config, qparams=qparams)
QuantizeWithConfig ==
    /\ qpc = "quantize_config"
    /\ new_quantized_model' = quantize(config, qparams)
    /\ qpc' = After(qpc)
    /\ UNCHANGED <<qparams, quantized_model, config, new_config>>
    /\ UNCHANGED cvars

\* new_config = dump_config(new_quantized_model)
DumpNewConfig ==
    /\ qpc = "dump_new"
    /\ new_config' = dump_config(new_quantized_model)
    /\ qpc' = After(qpc)
    /\ UNCHANGED <<qparams, quantized_model, config, new_quantized_model>>
    /\ UNCHANGED cvars

NextQ ==
    \/ QuantizeWithParams
    \/ DumpConfig
    \/ EditBitwidth
    \/ EditAxis
    \/ EditBuffer
    \/ DropLayer
    \/ QuantizeWithConfig
    \/ DumpNewConfig

SpecQ == InitQ /\ [][NextQ]_vars

(***************************** properties ***********************************)
NumChannels == Len(samples[1])

JustInitialized == calls = <<"initialize">>

LastIsUpdate == calls # <<>> /\ calls[Len(calls)] = "update"

NumUpdates == Cardinality({i \in DOMAIN calls : calls[i] = "update"})

\* The number of batches processed so far, from the loop counters.
Consumed ==
    CASE pc = "start" -> 0
      [] pc = "calibrating" -> (epoch - 1) * steps + step - 1
      [] pc = "done" -> (epoch - 1) * steps + step

\* The largest element of a finite non-empty set of integers.
SetMax(S) == CHOOSE x \in S : \A y \in S : y <= x

Magnitude(v, abs) == IF abs THEN Abs(v) ELSE v

\* The exact maximum of batch b (of the magnitudes of its entries when abs),
\* over all dimensions except the channel axis or over all dimensions.
BatchMax(b, ax, abs) ==
    IF ax = "per-axis"
    THEN Vector([c \in 1..Len(b[1]) |->
                    RInt(SetMax({Magnitude(b[r][c], abs) : r \in DOMAIN b}))])
    ELSE Scalar(RInt(SetMax({Magnitude(b[r][c], abs) :
                                r \in DOMAIN b, c \in 1..Len(b[1])})))

\* momentum * prev + (1 - momentum) * bm, elementwise.
Ema(prev, bm, m) ==
    [shape |-> prev.shape,
     data |-> [i \in DOMAIN prev.data |->
                 RAdd(RMul(m, prev.data[i]), RMul(RSub(ROne, m), bm.data[i]))]]

\* C1: immediately after initialize the estimate is the exact maximum
\* absolute value of the first batch, over all dimensions except the axis
\* (per-axis) or over all dimensions (per-tensor), whatever the momentum.
C1_InitIsAbsMax ==
    JustInitialized => range_max = BatchMax(batch, axis, TRUE)

\* A batch without negative entries: its maximum absolute value is its maximum.
NonNegative(b) == \A r \in DOMAIN b : \A c \in DOMAIN b[r] : b[r][c] >= 0

\* C2: every update leaves the estimate equal to
\* momentum * previous_estimate + (1 - momentum) * batch_max, batch_max being
\* the batch's maximum absolute value; batches [[1,2,3]] then [[4,0,0]],
\* per-tensor, momentum 0.9 give 3 after initialize and 3.1 after the update.
\* Stated for the batches without negative entries, so that a violation is
\* one of the update rule and not of the reduction.
C2_UpdateIsEma ==
    /\ (LastIsUpdate /\ NonNegative(batch)) =>
           range_max = Ema(previous_range_max, BatchMax(batch, axis, TRUE), momentum)
    /\ ( /\ samples = << <<1, 2, 3>>, <<4, 0, 0>> >>
         /\ BatchLen = 1
         /\ axis = "per-tensor"
         /\ momentum = <<9, 10>> ) =>
           /\ Len(calls) = 1 => range_max = Scalar(<<3, 1>>)
           /\ Len(calls) = 2 => range_max = Scalar(<<31, 10>>)

\* C3: the two-step rule delta = previous - batch_max * (1 - momentum),
\* new = previous - delta gives the same result as the smoothing form
\* momentum * previous + (1 - momentum) * batch_max.
C3_TwoStepIsSmoothing ==
    LastIsUpdate =>
        LET d == TSub(previous_range_max, TScale(samples_max, RSub(ROne, momentum)))
        IN  /\ delta = d
            /\ TSub(previous_range_max, d) = Ema(previous_range_max, samples_max, momentum)

\* C6: when every batch of the stream is identical, the estimate after
\* initialize and after any number of updates equals that batch's maximum.
C6_ConstantStream ==
    ( /\ calls # <<>>
      /\ \A i \in DOMAIN samples : samples[i] = samples[1] ) =>
        range_max = BatchMax(batch, axis, FALSE)

\* C7: once initialized, a per-axis estimate is a vector whose length is the
\* size of the designated axis and a per-tensor estimate is a single scalar.
C7_EstimateShape ==
    calls # <<>> =>
        IF axis = "per-axis"
        THEN range_max.shape = <<NumChannels>> /\ Len(range_max.data) = NumChannels
        ELSE range_max.shape = <<>> /\ Len(range_max.data) = 1

C7_Witness ==
    /\ LastIsUpdate
    /\ Len(calls) >= 3
    /\ axis = "per-axis"
    /\ NumChannels = 3
    /\ range_max.shape = <<3>>

\* C8: steps is the least integer not below num_samples / batch_size when
\* batch_size is set and num_samples when it is not; 1024 samples in batches
\* of 100 give 11 steps.
C8_Steps ==
    pc # "start" =>
        /\ batch_size = None => steps = num_samples
        /\ batch_size # None =>
              /\ steps * batch_size >= num_samples
              /\ (steps - 1) * batch_size < num_samples
        /\ (num_samples = 1024 /\ batch_size = 100) => steps = 11

C8_Witness ==
    /\ pc # "start"
    /\ num_samples = 1024
    /\ batch_size = 100
    /\ steps = 11

\* C9: initialize is applied exactly once, to the very first batch overall
\* and before any update; every other batch, the first batch of each later
\* epoch included, applies update, and the estimate is never unset again.
C9_InitOnce ==
    /\ Len(calls) = Consumed
    /\ \A i \in DOMAIN calls : calls[i] = IF i = 1 THEN "initialize" ELSE "update"
    /\ calls # <<>> => range_max # Unset
    /\ calls = <<>> => range_max = Unset

C9_Witness ==
    /\ epoch = 2
    /\ steps >= 2
    /\ Len(calls) = steps + 1
    /\ calls[1] = "initialize"
    /\ calls[steps + 1] = "update"

RLe(x, y) == x[1] * y[2] <= y[1] * x[2]

\* The k-th batch of the run, from the samples and the batch length.
BatchAt(k) ==
    [i \in 1..BatchLen |-> samples[(((k - 1) * BatchLen + i - 1) % Len(samples)) + 1]]

\* C12: once initialized, every component of the estimate is non-negative
\* and lies between the smallest and the largest of the per-batch maxima (of
\* the magnitudes, for that component) of the batches observed so far.
C12_WithinObservedMaxima ==
    calls # <<>> =>
        \A i \in DOMAIN range_max.data :
            /\ RLe(RInt(0), range_max.data[i])
            /\ \E k \in 1..Len(calls) :
                   RLe(BatchMax(BatchAt(k), axis, TRUE).data[i], range_max.data[i])
            /\ \E k \in 1..Len(calls) :
                   RLe(range_max.data[i], BatchMax(BatchAt(k), axis, TRUE).data[i])

====
